---------------------------- MODULE Spec2Model ----------------------------
(***************************************************************************)
(* A model of src/src/protocol/pool_pg_utils.c (pgpool-II):                *)
(*   - make_persistent_db_connection and its _noerror wrapper, with the    *)
(*     memory they allocate, the transport they open and the bytes they    *)
(*     write (specification SpecOpen);                                     *)
(*   - discard_persistent_db_connection on what that call returned         *)
(*     (also specification SpecOpen);                                      *)
(*   - select_load_balancing_node and choose_db_node_id                    *)
(*     (specification SpecSel);                                            *)
(*   - Pgversion and its static cache (specification SpecVer).             *)
(* C strings are sequences of byte values; a C array indexed from 0 is a   *)
(* function on 0..n-1; doubles in [0,1] are numerators over RAND_MAX.      *)
(***************************************************************************)
EXTENDS Integers, Sequences, FiniteSets, TLC

NULL == "NULL"

Min(a, b) == IF a < b THEN a ELSE b

\* n copies of byte c
Rep(c, n) == [i \in 1..n |-> c]

(***************************************************************************)
(* Bounds of the model.                                                    *)
(***************************************************************************)
\* number of configured backends (pool_config->backend_desc->num_backends)
NUM_BACKENDS == 3

\* resolution of the random draws: random() returns 0..RAND_MAX
RAND_MAX == 10

(***************************************************************************)
(* Byte strings used by the opener.                                        *)
(***************************************************************************)
STR_user == <<117, 115, 101, 114>>
STR_database == <<100, 97, 116, 97, 98, 97, 115, 101>>
STR_bob == <<98, 111, 98>>
STR_app == <<97, 112, 112>>
HOST_unix == <<47, 116, 109, 112>>
HOST_inet == <<108, 111, 99, 97, 108, 104, 111, 115, 116>>

\* pool_pg_utils.c:51
MAX_USER_AND_DATABASE == 1024

\* user and dbname arguments the calls are made with: the scenario's names,
\* the empty string, and names around each of the three length checks
Users ==
    {STR_bob, <<>>, Rep(117, 1004), Rep(117, 1005), Rep(117, 1010), Rep(117, 2000)}
Dbnames == {STR_app, Rep(100, 1003), Rep(100, 1004)}
Hostnames == {HOST_unix, HOST_inet}

\* htonl(n) as the four bytes it leaves in memory
htonl(n) ==
    << (n \div 16777216) % 256, (n \div 65536) % 256, (n \div 256) % 256, n % 256 >>


(***************************************************************************)
(* State.                                                                  *)
(***************************************************************************)
VARIABLES
    pc,                    \* position of the current opener call
    args,                  \* arguments of make_persistent_db_connection(_noerror)
    cp,                    \* the POOL_CONNECTION_POOL_SLOT cp points to
    sp,                    \* the StartupPacket cp->sp points to
    con,                   \* the POOL_CONNECTION cp->con points to
    startup_packet,        \* the StartupPacket_v3 startup_packet points to
    heap,                  \* per allocation: state and number of releases
    fd,                    \* the transport's file descriptor
    connectVia,            \* which connect function produced fd
    wire,                  \* bytes flushed to the backend, in order
    errstate,              \* the pending error (elog's error data)
    elog,                  \* reports emitted by EmitErrorReport
    CurrentMemoryContext,
    oldContext,            \* the wrapper's saved context
    slot,                  \* what the outermost call returned
    innerResult,           \* how make_persistent_db_connection itself ended
    steps,                 \* the steps of the call taken so far, in order
    nonblock,              \* O_NONBLOCK is set on the descriptor
    sel_pc,                \* position of the selector call
    backend_info,          \* per backend: raw liveness, validity, weight
    PRIMARY_NODE_ID,
    SL_MODE,
    database,              \* MASTER_CONNECTION(ses->backend)->sp->database
    application_name,      \* ...->sp->application_name
    sel,                   \* locals and result of select_load_balancing_node
    ver_pc,                \* position of the current Pgversion call
    pgversion,             \* static PGVersion pgversion
    relcache,              \* static POOL_RELCACHE *relcache
    server_version,        \* what SELECT version() gives on the backend
    ver_local,             \* Pgversion's locals result, p and major
    ver_hist               \* calls returned, relcache creations and lookups

openVars ==
    << pc, args, cp, sp, con, startup_packet, heap, fd, connectVia, wire,
       errstate, elog, CurrentMemoryContext, oldContext, slot, innerResult,
       steps, nonblock >>

selVars ==
    << sel_pc, backend_info, PRIMARY_NODE_ID, SL_MODE, database,
       application_name, sel >>

verVars == << ver_pc, pgversion, relcache, server_version, ver_local, ver_hist >>

vars == << openVars, selVars, verVars >>

(***************************************************************************)
(* Memory: palloc / pfree, and the transport.                              *)
(***************************************************************************)
Objs == {"cp", "startup_packet", "con", "sp", "database", "user"}

Palloc(h, o) == [h EXCEPT ![o] = [state |-> "live", frees |-> @.frees]]

Pfree(h, o) == [h EXCEPT ![o] = [state |-> "freed", frees |-> @.frees + 1]]

\* free_persisten_db_connection_memory(cpp), cpp pointing to cpv, cpv.sp to spv
free_persisten_db_connection_memory(h, cpp, cpv, spv) ==
    IF cpp = NULL THEN h
    ELSE IF cpv.sp = NULL THEN Pfree(h, cpp)
    ELSE
        LET h1 == IF spv.startup_packet # NULL THEN Pfree(h, spv.startup_packet) ELSE h
            h2 == IF spv.database # NULL THEN Pfree(h1, spv.database) ELSE h1
            h3 == IF spv.user # NULL THEN Pfree(h2, spv.user) ELSE h2
            h4 == Pfree(h3, cpv.sp)
        IN  Pfree(h4, cpp)

\* pool_close(cp->con): closes the descriptor and frees the POOL_CONNECTION
pool_close(h, c) == Pfree(h, c)

(***************************************************************************)
(* The V3 startup packet, lines 100-136.                                   *)
(***************************************************************************)
ZeroData == [i \in 0..(MAX_USER_AND_DATABASE - 1) |-> 0]

\* snprintf(&data[off], size, "%s", s): the buffer afterwards.  At most
\* size-1 bytes of s are stored, then a NUL; the return value is Len(s).
snprintf(data, off, size, s) ==
    IF size <= 0 THEN data
    ELSE
        LET n == Min(Len(s), size - 1)
        IN  [i \in 0..(MAX_USER_AND_DATABASE - 1) |->
                IF i >= off /\ i < off + n THEN s[i - off + 1]
                ELSE IF i = off + n THEN 0
                ELSE data[i]]

\* the highest index of the buffer that call stores into (its NUL)
snprintf_top(off, size, s) ==
    IF size <= 0 THEN -1 ELSE off + Min(Len(s), size - 1)

Max(a, b) == IF a > b THEN a ELSE b

TooLong_Strict(len1, size, len) == len1 > size - len

TooLong_OneLess(len1, size, len) == len1 >= size - len - 1

\* lines 102, 114, 126: len1 >= (sizeof(startup_packet->data) - len)
TooLong(len1, size, len) == len1 >= size - len

\* The three length-checked appends and the final NUL.  The result says
\* whether the packet was built, which errdetail was raised otherwise, the
\* buffer and len as they are on leaving the block, and the highest index
\* of data[] the block stored into.
BuildStartupPacket(user, dbname) ==
    LET size == MAX_USER_AND_DATABASE
        d1 == snprintf(ZeroData, 0, size, STR_user)
        len_a == Len(STR_user) + 1
        d2 == snprintf(d1, len_a, size - len_a, user)
        len1_u == Len(user) + 1
        len_b == len_a + len1_u
        d3 == snprintf(d2, len_b, size - len_b, STR_database)
        len1_k == Len(STR_database) + 1
        len_c == len_b + len1_k
        d4 == snprintf(d3, len_c, size - len_c, dbname)
        len1_d == Len(dbname) + 1
        len_d == len_c + len1_d
        t1 == snprintf_top(0, size, STR_user)
        t2 == Max(t1, snprintf_top(len_a, size - len_a, user))
        t3 == Max(t2, snprintf_top(len_b, size - len_b, STR_database))
        t4 == Max(t3, snprintf_top(len_c, size - len_c, dbname))
    IN  IF TooLong(len1_u, size, len_a)
        THEN [ok |-> FALSE, errdetail |-> "user name is too long",
              data |-> d2, len |-> len_a, top |-> t2]
        ELSE IF TooLong(len1_k, size, len_b)
        THEN [ok |-> FALSE, errdetail |-> "user name is too long",
              data |-> d3, len |-> len_b, top |-> t3]
        ELSE IF TooLong(len1_d, size, len_c)
        THEN [ok |-> FALSE, errdetail |-> "database name is too long",
              data |-> d4, len |-> len_c, top |-> t4]
        ELSE [ok |-> TRUE, errdetail |-> "",
              data |-> [d4 EXCEPT ![len_d] = 0], len |-> len_d + 1,
              top |-> Max(t4, len_d)]

PacketLen_DataOnly(len) == len

\* line 141: cp->sp->len = len + 4
PacketLen(len) == len + 4

\* the first n bytes of the StartupPacket_v3 struct: protoVersion, then data
StructBytes(pkt, n) ==
    [i \in 1..n |-> IF i <= 4 THEN pkt.protoVersion[i] ELSE pkt.data[i - 5]]

StartupFrameBytes_NoPrefixSize(spv, pkt) == htonl(spv.len) \o StructBytes(pkt, spv.len)

\* send_startup_packet's two writes: htonl(sp->len + sizeof(len)), then
\* sp->len bytes of the packet
StartupFrameBytes(spv, pkt) == htonl(spv.len + 4) \o StructBytes(pkt, spv.len)

(***************************************************************************)
(* What the collaborators outside this file can do.                        *)
(***************************************************************************)
\* connect_*_domain_socket_by_port: a descriptor, or fd < 0
ConnectOutcomes == {"ok", "fail"}
\* pool_ssl_negotiate_clientserver: returns, or raises ERROR
SslOutcomes == {"ok", "error"}
\* pool_write_and_flush: returns, or raises ERROR
FlushOutcomes == {"ok", "error"}
\* connection_do_auth: returns, or raises ERROR
AuthOutcomes == {"ok", "error"}
\* pool_flush_it on the non-blocking descriptor: all of the buffer, a part
\* of it or nothing is written, and the call returns in each case
FlushItOutcomes == {"ok", "partial", "closed"}
\* the allocation context a raising collaborator may leave current
Contexts == {"ProcessLoopContext", "QueryContext"}

NoError == [msg |-> "", detail |-> ""]

ArgSet ==
    [db_node_id : 0..(NUM_BACKENDS - 1), hostname : Hostnames, port : {5432},
     dbname : Dbnames, user : Users, password : {"secret"}, retry : {FALSE},
     noerror : BOOLEAN]

ZeroSlot == [con |-> NULL, closetime |-> 0, sp |-> NULL]
ZeroStartupPacket ==
    [startup_packet |-> NULL, len |-> 0, major |-> 0, minor |-> 0,
     database |-> NULL, user |-> NULL, database_s |-> <<>>, user_s |-> <<>>]
ZeroCon == [isbackend |-> 0, db_node_id |-> -1, wbuf |-> <<>>]
ZeroPacket == [protoVersion |-> <<0, 0, 0, 0>>, data |-> ZeroData]

\* where an ERROR raised by make_persistent_db_connection lands: in the
\* wrapper's PG_CATCH, or in the caller
RaiseTarget == IF args.noerror THEN "noerror_catch" ELSE "propagated"

(***************************************************************************)
(* make_persistent_db_connection, step by step.                            *)
(***************************************************************************)
\* entry (and the wrapper's entry, lines 174-179): lines 64-66
mpdc_entry ==
    /\ pc = "idle"
    /\ UNCHANGED << selVars, verVars, nonblock >>
    /\ steps' = Append(steps, "entry")
    /\ \E a \in ArgSet :
        /\ args' = a
        /\ oldContext' = IF a.noerror THEN CurrentMemoryContext ELSE oldContext
    /\ cp' = ZeroSlot
    /\ startup_packet' = [ZeroPacket EXCEPT !.protoVersion = htonl(196608)]
    /\ heap' = Palloc(Palloc(heap, "cp"), "startup_packet")
    /\ pc' = "connect"
    /\ UNCHANGED << sp, con, fd, connectVia, wire, errstate, elog,
                    CurrentMemoryContext, slot, innerResult >>

\* lines 72-93
mpdc_connect ==
    /\ pc = "connect"
    /\ UNCHANGED << selVars, verVars, nonblock >>
    /\ steps' = Append(steps, "connect")
    /\ connectVia' = IF Head(args.hostname) = 47 THEN "unix" ELSE "inet"
    /\ \E out \in ConnectOutcomes :
        \/ /\ out = "fail"
           /\ heap' = Pfree(free_persisten_db_connection_memory(heap, "cp", cp, sp),
                            "startup_packet")
           /\ errstate' = [msg |-> "failed to make persistent db connection",
                           detail |-> "connection to host failed"]
           /\ innerResult' = "raised"
           /\ pc' = RaiseTarget
           /\ UNCHANGED << cp, con, fd >>
        \/ /\ out = "ok"
           /\ fd' = "open"
           /\ heap' = Palloc(heap, "con")
           /\ cp' = [cp EXCEPT !.con = "con", !.closetime = 0]
           /\ con' = [con EXCEPT !.isbackend = 1, !.db_node_id = args.db_node_id]
           /\ pc' = "ssl"
           /\ UNCHANGED << errstate, innerResult >>
    /\ UNCHANGED << args, sp, startup_packet, wire, elog, CurrentMemoryContext,
                    oldContext, slot >>

\* line 95: the call stands outside any PG_TRY block
mpdc_ssl_negotiate ==
    /\ pc = "ssl"
    /\ UNCHANGED << selVars, verVars, nonblock >>
    /\ steps' = Append(steps, "ssl")
    /\ \E out \in SslOutcomes :
        \/ /\ out = "ok"
           /\ pc' = "build"
           /\ UNCHANGED << errstate, innerResult, CurrentMemoryContext >>
        \/ /\ out = "error"
           /\ errstate' = [msg |-> "ssl negotiation failed", detail |-> ""]
           /\ innerResult' = "raised"
           /\ \E c \in Contexts : CurrentMemoryContext' = c
           /\ pc' = RaiseTarget
    /\ UNCHANGED << args, cp, sp, con, startup_packet, heap, fd, connectVia, wire,
                    elog, oldContext, slot >>

\* lines 100-145
mpdc_build ==
    /\ pc = "build"
    /\ UNCHANGED << selVars, verVars, nonblock >>
    /\ steps' = Append(steps, "build")
    /\ LET b == BuildStartupPacket(args.user, args.dbname)
       IN  /\ startup_packet' = [startup_packet EXCEPT !.data = b.data]
           /\ IF ~b.ok
              THEN /\ fd' = "closed"
                   /\ heap' = Pfree(free_persisten_db_connection_memory(
                                        pool_close(heap, cp.con), "cp", cp, sp),
                                    "startup_packet")
                   /\ errstate' = [msg |-> "failed to make persistent db connection",
                                   detail |-> b.errdetail]
                   /\ innerResult' = "raised"
                   /\ pc' = RaiseTarget
                   /\ UNCHANGED << cp, sp >>
              ELSE /\ heap' = Palloc(Palloc(Palloc(heap, "sp"), "database"), "user")
                   /\ cp' = [cp EXCEPT !.sp = "sp"]
                   /\ sp' = [startup_packet |-> "startup_packet",
                             len |-> PacketLen(b.len), major |-> 3, minor |-> 0,
                             database |-> "database", user |-> "user",
                             database_s |-> args.dbname, user_s |-> args.user]
                   /\ pc' = "send"
                   /\ UNCHANGED << fd, errstate, innerResult >>
    /\ UNCHANGED << args, con, connectVia, wire, elog, CurrentMemoryContext,
                    oldContext, slot >>

\* line 152 and send_startup_packet, lines 254-262
send_startup_packet ==
    /\ pc = "send"
    /\ UNCHANGED << selVars, verVars, nonblock >>
    /\ steps' = Append(steps, "send")
    /\ \E out \in FlushOutcomes :
        \/ /\ out = "ok"
           /\ wire' = wire \o con.wbuf \o StartupFrameBytes(sp, startup_packet)
           /\ pc' = "auth"
           /\ UNCHANGED << errstate, CurrentMemoryContext >>
        \/ /\ out = "error"
           /\ errstate' = [msg |-> "unable to flush data to backend", detail |-> ""]
           /\ \E c \in Contexts : CurrentMemoryContext' = c
           /\ pc' = "pg_catch"
           /\ UNCHANGED wire
    /\ UNCHANGED << args, cp, sp, con, startup_packet, heap, fd, connectVia, elog,
                    oldContext, slot, innerResult >>

\* lines 153 and 163
connection_do_auth ==
    /\ pc = "auth"
    /\ UNCHANGED << selVars, verVars, nonblock >>
    /\ steps' = Append(steps, "auth")
    /\ \E out \in AuthOutcomes :
        \/ /\ out = "ok"
           /\ innerResult' = "ok"
           /\ slot' = "cp"
           /\ pc' = "returned"
           /\ UNCHANGED << errstate, CurrentMemoryContext >>
        \/ /\ out = "error"
           /\ errstate' = [msg |-> "authentication failed", detail |-> ""]
           /\ \E c \in Contexts : CurrentMemoryContext' = c
           /\ pc' = "pg_catch"
           /\ UNCHANGED << innerResult, slot >>
    /\ UNCHANGED << args, cp, sp, con, startup_packet, heap, fd, connectVia, wire,
                    elog, oldContext >>

\* lines 155-160: PG_CATCH of make_persistent_db_connection
mpdc_pg_catch ==
    /\ pc = "pg_catch"
    /\ UNCHANGED << selVars, verVars, nonblock >>
    /\ steps' = Append(steps, "pg_catch")
    /\ fd' = "closed"
    /\ heap' = free_persisten_db_connection_memory(pool_close(heap, cp.con),
                                                   "cp", cp, sp)
    /\ innerResult' = "raised"
    /\ pc' = RaiseTarget
    /\ UNCHANGED << args, cp, sp, con, startup_packet, connectVia, wire, errstate,
                    elog, CurrentMemoryContext, oldContext, slot >>

mpdc_noerror_catch_NoSwitch ==
    /\ pc = "noerror_catch"
    /\ UNCHANGED << selVars, verVars, nonblock >>
    /\ steps' = Append(steps, "noerror_catch")
    /\ elog' = Append(elog, errstate)
    /\ errstate' = NoError
    /\ slot' = NULL
    /\ pc' = "returned"
    /\ UNCHANGED << args, cp, sp, con, startup_packet, heap, fd, connectVia, wire,
                    CurrentMemoryContext, oldContext, innerResult >>

\* lines 186-194: PG_CATCH of make_persistent_db_connection_noerror
mpdc_noerror_catch ==
    /\ pc = "noerror_catch"
    /\ UNCHANGED << selVars, verVars, nonblock >>
    /\ steps' = Append(steps, "noerror_catch")
    /\ elog' = Append(elog, errstate)
    /\ CurrentMemoryContext' = oldContext
    /\ errstate' = NoError
    /\ slot' = NULL
    /\ pc' = "returned"
    /\ UNCHANGED << args, cp, sp, con, startup_packet, heap, fd, connectVia, wire,
                    oldContext, innerResult >>

(***************************************************************************)
(* discard_persistent_db_connection, step by step, on the value the call   *)
(* above returned.                                                         *)
(***************************************************************************)
\* lines 233-235: 'X', then htonl(4)
TerminateBytes == <<88>> \o htonl(4)

\* lines 230-235
discard_persistent_db_connection ==
    /\ pc = "returned"
    /\ UNCHANGED << selVars, verVars, nonblock >>
    /\ IF slot = NULL
       THEN /\ steps' = Append(steps, "discard_null")
            /\ pc' = "discarded"
            /\ UNCHANGED con
       ELSE /\ steps' = Append(steps, "write_terminate")
            /\ con' = [con EXCEPT !.wbuf = @ \o TerminateBytes]
            /\ pc' = "d_nonblock"
    /\ UNCHANGED << args, cp, sp, startup_packet, heap, fd, connectVia, wire,
                    errstate, elog, CurrentMemoryContext, oldContext, slot,
                    innerResult >>

\* line 243
socket_set_nonblock ==
    /\ pc = "d_nonblock"
    /\ UNCHANGED << selVars, verVars >>
    /\ steps' = Append(steps, "set_nonblock")
    /\ nonblock' = TRUE
    /\ pc' = "d_flush"
    /\ UNCHANGED << args, cp, sp, con, startup_packet, heap, fd, connectVia, wire,
                    errstate, elog, CurrentMemoryContext, oldContext, slot,
                    innerResult >>

\* line 244: the return value is not looked at
pool_flush_it ==
    /\ pc = "d_flush"
    /\ UNCHANGED << selVars, verVars, nonblock >>
    /\ steps' = Append(steps, "flush_it")
    /\ \E out \in FlushItOutcomes :
        \/ /\ out = "ok"
           /\ wire' = wire \o con.wbuf
        \/ /\ out = "partial"
           /\ \E k \in 1..(Len(con.wbuf) - 1) : wire' = wire \o SubSeq(con.wbuf, 1, k)
        \/ /\ out = "closed"
           /\ UNCHANGED wire
    /\ con' = [con EXCEPT !.wbuf = <<>>]
    /\ pc' = "d_unblock"
    /\ UNCHANGED << args, cp, sp, startup_packet, heap, fd, connectVia, errstate,
                    elog, CurrentMemoryContext, oldContext, slot, innerResult >>

socket_unset_nonblock_Skip ==
    /\ pc = "d_unblock"
    /\ UNCHANGED << selVars, verVars, nonblock >>
    /\ steps' = Append(steps, "unset_nonblock")
    /\ pc' = "d_close"
    /\ UNCHANGED << args, cp, sp, con, startup_packet, heap, fd, connectVia, wire,
                    errstate, elog, CurrentMemoryContext, oldContext, slot,
                    innerResult >>

\* line 245
socket_unset_nonblock ==
    /\ pc = "d_unblock"
    /\ UNCHANGED << selVars, verVars >>
    /\ steps' = Append(steps, "unset_nonblock")
    /\ nonblock' = FALSE
    /\ pc' = "d_close"
    /\ UNCHANGED << args, cp, sp, con, startup_packet, heap, fd, connectVia, wire,
                    errstate, elog, CurrentMemoryContext, oldContext, slot,
                    innerResult >>

discard_pool_close_KeepFd ==
    /\ pc = "d_close"
    /\ UNCHANGED << selVars, verVars, nonblock >>
    /\ steps' = Append(steps, "pool_close")
    /\ heap' = pool_close(heap, cp.con)
    /\ pc' = "d_free"
    /\ UNCHANGED << args, cp, sp, con, startup_packet, fd, connectVia, wire, errstate,
                    elog, CurrentMemoryContext, oldContext, slot, innerResult >>

\* line 247
discard_pool_close ==
    /\ pc = "d_close"
    /\ UNCHANGED << selVars, verVars, nonblock >>
    /\ steps' = Append(steps, "pool_close")
    /\ fd' = "closed"
    /\ heap' = pool_close(heap, cp.con)
    /\ pc' = "d_free"
    /\ UNCHANGED << args, cp, sp, con, startup_packet, connectVia, wire, errstate,
                    elog, CurrentMemoryContext, oldContext, slot, innerResult >>

discard_free_KeepStartupRecord ==
    /\ pc = "d_free"
    /\ UNCHANGED << selVars, verVars, nonblock >>
    /\ steps' = Append(steps, "free")
    /\ heap' = Pfree(heap, "cp")
    /\ pc' = "discarded"
    /\ UNCHANGED << args, cp, sp, con, startup_packet, fd, connectVia, wire, errstate,
                    elog, CurrentMemoryContext, oldContext, slot, innerResult >>

\* line 248
discard_free ==
    /\ pc = "d_free"
    /\ UNCHANGED << selVars, verVars, nonblock >>
    /\ steps' = Append(steps, "free")
    /\ heap' = free_persisten_db_connection_memory(heap, "cp", cp, sp)
    /\ pc' = "discarded"
    /\ UNCHANGED << args, cp, sp, con, startup_packet, fd, connectVia, wire, errstate,
                    elog, CurrentMemoryContext, oldContext, slot, innerResult >>

\* the version cache before the first Pgversion call: static storage is zero
ZeroPgversion == [major |-> 0, minor |-> 0, version_string |-> <<>>]
NoVerLocal == [result |-> NULL, p |-> 0, major |-> 0]
NoVerHist ==
    [calls |-> 0, creates |-> 0, searches |-> 0, ret |-> NULL, first |-> NULL,
     fatal |-> ""]

IdleArgs ==
    [db_node_id |-> 0, hostname |-> HOST_inet, port |-> 5432, dbname |-> <<>>,
     user |-> <<>>, password |-> "secret", retry |-> FALSE, noerror |-> FALSE]

\* the locals of select_load_balancing_node as declared, lines 288-303
NoSel ==
    [locals |-> [index_db |-> -1, index_app |-> -1, suggested_node_id |-> -2,
                 no_load_balance_node_id |-> -2, r |-> -1],
     at |-> "none", r2 |-> -1, total_weight |-> -1, ret |-> -2]

\* no selection is in progress while the opener runs
OpenInit ==
    /\ pc = "idle"
    /\ args = IdleArgs
    /\ cp = ZeroSlot
    /\ sp = ZeroStartupPacket
    /\ con = ZeroCon
    /\ startup_packet = ZeroPacket
    /\ heap = [o \in Objs |-> [state |-> "none", frees |-> 0]]
    /\ fd = "none"
    /\ connectVia = "none"
    /\ wire = <<>>
    /\ errstate = NoError
    /\ elog = <<>>
    /\ CurrentMemoryContext \in Contexts
    /\ oldContext = "ProcessLoopContext"
    /\ slot = "unset"
    /\ innerResult = "none"
    /\ steps = <<>>
    /\ nonblock = FALSE
    /\ sel_pc = "off"
    /\ backend_info = [i \in 0..(NUM_BACKENDS - 1) |->
                          [raw |-> TRUE, valid |-> TRUE, backend_weight |-> 1]]
    /\ PRIMARY_NODE_ID = 0
    /\ SL_MODE = TRUE
    /\ database = "other"
    /\ application_name = NULL
    /\ sel = NoSel
    /\ ver_pc = "off"
    /\ pgversion = ZeroPgversion
    /\ relcache = NULL
    /\ server_version = <<>>
    /\ ver_local = NoVerLocal
    /\ ver_hist = NoVerHist

OpenNext ==
    \/ mpdc_entry
    \/ mpdc_connect
    \/ mpdc_ssl_negotiate
    \/ mpdc_build
    \/ send_startup_packet
    \/ connection_do_auth
    \/ mpdc_pg_catch
    \/ mpdc_noerror_catch
    \/ discard_persistent_db_connection
    \/ socket_set_nonblock
    \/ pool_flush_it
    \/ socket_unset_nonblock
    \/ discard_pool_close
    \/ discard_free

(***************************************************************************)
(* select_load_balancing_node: configuration and topology.                 *)
(***************************************************************************)
TOK_primary == <<112, 114, 105, 109, 97, 114, 121>>
TOK_standby == <<115, 116, 97, 110, 100, 98, 121>>
TOK_1 == <<49>>
TOK_2 == <<50>>
TOK_99 == <<57, 57>>

\* database_redirect_preference_list: each regular expression is given by
\* the set of names it matches; weights are numerators over RAND_MAX
redirect_dbnames == << {"app"}, {"app0"}, {"rep"}, {"pri"}, {"far", "app"} >>
db_redirect_tokens ==
    << [right_token |-> TOK_2, weight_token |-> RAND_MAX],
       [right_token |-> TOK_2, weight_token |-> 0],
       [right_token |-> TOK_standby, weight_token |-> 3],
       [right_token |-> TOK_primary, weight_token |-> 3],
       [right_token |-> TOK_99, weight_token |-> 3] >>

\* app_name_redirect_preference_list
redirect_app_names == << {"psql"}, {"rpt", "psql"} >>
app_name_redirect_tokens ==
    << [right_token |-> TOK_1, weight_token |-> RAND_MAX],
       [right_token |-> TOK_standby, weight_token |-> 3] >>

DatabaseNames == {"app", "app0", "rep", "pri", "far", "other"}
ApplicationNames == {NULL, "", "psql", "rpt"}

\* the values the two draws of random() take in the model
FirstDraws == {0, 1, 3, RAND_MAX}
SecondDraws == {0, RAND_MAX \div 2, RAND_MAX}

BackendWeights == {0, 1}

Backends == 0..(NUM_BACKENDS - 1)

VALID_BACKEND(i) == backend_info[i].valid
VALID_BACKEND_RAW(i) == backend_info[i].raw
BACKEND_WEIGHT(i) == backend_info[i].backend_weight

\* the lowest-id live node
MASTER_NODE_ID ==
    IF \E i \in Backends : VALID_BACKEND_RAW(i)
    THEN CHOOSE i \in Backends :
            /\ VALID_BACKEND_RAW(i)
            /\ \A j \in Backends : VALID_BACKEND_RAW(j) => i <= j
    ELSE -1

\* regex_array_match: the index of the first expression matching name, or -1
regex_array_match(list, name) ==
    IF \E k \in 1..Len(list) : name \in list[k]
    THEN (CHOOSE k \in 1..Len(list) :
            /\ name \in list[k]
            /\ \A j \in 1..(k - 1) : name \notin list[j]) - 1
    ELSE -1

IsDigit(c) == c >= 48 /\ c <= 57

RECURSIVE atoi_digits(_, _, _)
atoi_digits(s, k, acc) ==
    IF k > Len(s) \/ ~IsDigit(s[k]) THEN acc
    ELSE atoi_digits(s, k + 1, acc * 10 + (s[k] - 48))

RECURSIVE atoi_from(_, _)
atoi_from(s, k) ==
    IF k > Len(s) THEN 0
    ELSE IF s[k] = 32 \/ (s[k] >= 9 /\ s[k] <= 13) THEN atoi_from(s, k + 1)
    ELSE IF s[k] = 45 THEN 0 - atoi_digits(s, k + 1, 0)
    ELSE IF s[k] = 43 THEN atoi_digits(s, k + 1, 0)
    ELSE atoi_digits(s, k, 0)

\* atoi(3): leading white space, an optional sign, then the leading digits;
\* 0 when there are none
atoi(s) == atoi_from(s, 1)

\* choose_db_node_id, lines 626-647
choose_db_node_id(str) ==
    IF str = TOK_primary /\ PRIMARY_NODE_ID >= 0 THEN PRIMARY_NODE_ID
    ELSE IF str = TOK_standby THEN -1
    ELSE LET tmp == atoi(str)
         IN  IF tmp >= 0 /\ tmp < NUM_BACKENDS THEN tmp ELSE MASTER_NODE_ID

(***************************************************************************)
(* select_load_balancing_node, lines 285-458.                              *)
(***************************************************************************)
\* lines 332-334 and 373-375: the node a matching rule suggests, or the
\* suggestion so far when its target is neither "standby" nor a valid node
RuleSuggestion(right_token, so_far) ==
    LET tmp == choose_db_node_id(right_token)
    IN  IF tmp = -1 \/ (tmp >= 0 /\ VALID_BACKEND(tmp)) THEN tmp ELSE so_far

DirectHit_Strict(index_db, index_app, r) ==
    \/ index_db >= 0 /\ r < db_redirect_tokens[index_db + 1].weight_token
    \/ index_app >= 0 /\ r < app_name_redirect_tokens[index_app + 1].weight_token

\* lines 387-388: r <= the weight of the rule whose index is set
DirectHit(index_db, index_app, r) ==
    \/ index_db >= 0 /\ r <= db_redirect_tokens[index_db + 1].weight_token
    \/ index_app >= 0 /\ r <= app_name_redirect_tokens[index_app + 1].weight_token

SendToPrimary_DbRuleOnly(index_db, index_app, r) ==
    index_db >= 0 /\ r > db_redirect_tokens[index_db + 1].weight_token

\* lines 403-404: r > the weight of the rule whose index is set
SendToPrimary(index_db, index_app, r) ==
    \/ index_db >= 0 /\ r > db_redirect_tokens[index_db + 1].weight_token
    \/ index_app >= 0 /\ r > app_name_redirect_tokens[index_app + 1].weight_token

\* lines 417-431: the first loop, from backend i on
RECURSIVE SumWeights(_, _, _)
SumWeights(i, suggested_node_id, no_load_balance_node_id) ==
    IF i >= NUM_BACKENDS THEN 0
    ELSE LET rest == SumWeights(i + 1, suggested_node_id, no_load_balance_node_id)
         IN  IF ~VALID_BACKEND_RAW(i) THEN rest
             ELSE IF i = no_load_balance_node_id THEN rest
             ELSE IF suggested_node_id = -1
                  THEN IF i # PRIMARY_NODE_ID THEN BACKEND_WEIGHT(i) + rest ELSE rest
                  ELSE BACKEND_WEIGHT(i) + rest

RECURSIVE PickByWeight_KeepForbidden(_, _, _, _, _, _, _)
PickByWeight_KeepForbidden(i, selected_slot, total_weight, r2, total, suggested_node_id, no_load_balance_node_id) ==
    IF i >= NUM_BACKENDS THEN selected_slot
    ELSE IF suggested_node_id = -1 /\ i = PRIMARY_NODE_ID
    THEN PickByWeight_KeepForbidden(i + 1, selected_slot, total_weight, r2, total,
                                    suggested_node_id, no_load_balance_node_id)
    ELSE IF VALID_BACKEND_RAW(i) /\ BACKEND_WEIGHT(i) > 0
    THEN IF r2 * total >= total_weight * RAND_MAX
         THEN PickByWeight_KeepForbidden(i + 1, i, total_weight + BACKEND_WEIGHT(i), r2,
                                         total, suggested_node_id, no_load_balance_node_id)
         ELSE selected_slot
    ELSE PickByWeight_KeepForbidden(i + 1, selected_slot, total_weight, r2, total,
                                    suggested_node_id, no_load_balance_node_id)

RECURSIVE PickByWeight_KeepPrimary(_, _, _, _, _, _, _)
PickByWeight_KeepPrimary(i, selected_slot, total_weight, r2, total, suggested_node_id, no_load_balance_node_id) ==
    IF i >= NUM_BACKENDS THEN selected_slot
    ELSE IF i = no_load_balance_node_id
    THEN PickByWeight_KeepPrimary(i + 1, selected_slot, total_weight, r2, total,
                                  suggested_node_id, no_load_balance_node_id)
    ELSE IF VALID_BACKEND_RAW(i) /\ BACKEND_WEIGHT(i) > 0
    THEN IF r2 * total >= total_weight * RAND_MAX
         THEN PickByWeight_KeepPrimary(i + 1, i, total_weight + BACKEND_WEIGHT(i), r2,
                                       total, suggested_node_id, no_load_balance_node_id)
         ELSE selected_slot
    ELSE PickByWeight_KeepPrimary(i + 1, selected_slot, total_weight, r2, total,
                                  suggested_node_id, no_load_balance_node_id)

RECURSIVE PickByWeight_Strict(_, _, _, _, _, _, _)
PickByWeight_Strict(i, selected_slot, total_weight, r2, total, suggested_node_id, no_load_balance_node_id) ==
    IF i >= NUM_BACKENDS THEN selected_slot
    ELSE IF (suggested_node_id = -1 /\ i = PRIMARY_NODE_ID)
            \/ i = no_load_balance_node_id
    THEN PickByWeight_Strict(i + 1, selected_slot, total_weight, r2, total,
                             suggested_node_id, no_load_balance_node_id)
    ELSE IF VALID_BACKEND_RAW(i) /\ BACKEND_WEIGHT(i) > 0
    THEN IF r2 * total > total_weight * RAND_MAX
         THEN PickByWeight_Strict(i + 1, i, total_weight + BACKEND_WEIGHT(i), r2, total,
                                  suggested_node_id, no_load_balance_node_id)
         ELSE selected_slot
    ELSE PickByWeight_Strict(i + 1, selected_slot, total_weight, r2, total,
                             suggested_node_id, no_load_balance_node_id)

\* lines 440-453: the second loop, from backend i on.  r is
\* (r2 / RAND_MAX) * total, so r >= total_weight is
\* r2 * total >= total_weight * RAND_MAX.
RECURSIVE PickByWeight(_, _, _, _, _, _, _)
PickByWeight(i, selected_slot, total_weight, r2, total, suggested_node_id, no_load_balance_node_id) ==
    IF i >= NUM_BACKENDS THEN selected_slot
    ELSE IF (suggested_node_id = -1 /\ i = PRIMARY_NODE_ID)
            \/ i = no_load_balance_node_id
    THEN PickByWeight(i + 1, selected_slot, total_weight, r2, total,
                      suggested_node_id, no_load_balance_node_id)
    ELSE IF VALID_BACKEND_RAW(i) /\ BACKEND_WEIGHT(i) > 0
    THEN IF r2 * total >= total_weight * RAND_MAX
         THEN PickByWeight(i + 1, i, total_weight + BACKEND_WEIGHT(i), r2, total,
                           suggested_node_id, no_load_balance_node_id)
         ELSE selected_slot
    ELSE PickByWeight(i + 1, selected_slot, total_weight, r2, total,
                      suggested_node_id, no_load_balance_node_id)

\* The whole function for a session whose startup record names db and app,
\* with r = r1 / RAND_MAX the first draw and r2 / RAND_MAX the second.
\* The result holds the locals as they are when the function returns,
\* where it returned ("direct", "primary" or "fallback") and the value.
select_load_balancing_node(db, app, r1, r2) ==
    LET db_match ==
            IF SL_MODE /\ Len(redirect_dbnames) > 0
            THEN regex_array_match(redirect_dbnames, db) ELSE -1
        sug_db ==
            IF db_match >= 0
            THEN RuleSuggestion(db_redirect_tokens[db_match + 1].right_token, -2)
            ELSE -2
        index_app ==
            IF SL_MODE /\ Len(redirect_app_names) > 0 /\ app # NULL /\ app # ""
            THEN regex_array_match(redirect_app_names, app) ELSE -1
        index_db == IF index_app >= 0 THEN -1 ELSE db_match
        suggested_node_id ==
            IF index_app >= 0
            THEN RuleSuggestion(app_name_redirect_tokens[index_app + 1].right_token,
                                sug_db)
            ELSE sug_db
        direct == suggested_node_id >= 0 /\ DirectHit(index_db, index_app, r1)
        no_load_balance_node_id ==
            IF suggested_node_id >= 0 /\ ~direct THEN suggested_node_id ELSE -2
        primary == suggested_node_id = -1 /\ SendToPrimary(index_db, index_app, r1)
        total == SumWeights(0, suggested_node_id, no_load_balance_node_id)
        picked == PickByWeight(0, MASTER_NODE_ID, 0, r2, total,
                               suggested_node_id, no_load_balance_node_id)
        locals == [index_db |-> index_db, index_app |-> index_app,
                   suggested_node_id |-> suggested_node_id,
                   no_load_balance_node_id |-> no_load_balance_node_id,
                   r |-> r1]
    IN  IF direct
        THEN [locals |-> locals, at |-> "direct", r2 |-> -1, total_weight |-> -1,
              ret |-> suggested_node_id]
        ELSE IF primary
        THEN [locals |-> locals, at |-> "primary", r2 |-> -1, total_weight |-> -1,
              ret |-> PRIMARY_NODE_ID]
        ELSE [locals |-> locals, at |-> "fallback", r2 |-> r2, total_weight |-> total,
              ret |-> picked]

\* one call: the draws are the call's only inputs besides the state
slbn_call ==
    /\ sel_pc = "idle"
    /\ \E r1 \in FirstDraws, r2 \in SecondDraws :
        sel' = select_load_balancing_node(database, application_name, r1, r2)
    /\ sel_pc' = "done"
    /\ UNCHANGED << backend_info, PRIMARY_NODE_ID, SL_MODE, database, application_name >>
    /\ UNCHANGED << openVars, verVars >>

\* the topologies a selection can run in: at least one backend is alive, a
\* valid backend is alive, and the primary, if there is one, is alive.  The
\* weight of a backend that is down is never read; it is kept at 1.
Topologies ==
    { b \in [Backends -> [raw : BOOLEAN, valid : BOOLEAN, backend_weight : BackendWeights]] :
        /\ \A i \in Backends : b[i].valid => b[i].raw
        /\ \A i \in Backends : ~b[i].raw => b[i].backend_weight = 1
        /\ \E i \in Backends : b[i].raw }

\* no opener call is in progress while the selector runs
SelInit ==
    /\ sel_pc = "idle"
    /\ backend_info \in Topologies
    /\ PRIMARY_NODE_ID \in {-1} \cup {i \in Backends : backend_info[i].raw}
    /\ SL_MODE \in BOOLEAN
    /\ database \in (IF SL_MODE THEN DatabaseNames ELSE {"app"})
    /\ application_name \in (IF SL_MODE THEN ApplicationNames ELSE {"psql"})
    /\ sel = NoSel
    /\ pc = "off"
    /\ args = IdleArgs
    /\ cp = ZeroSlot
    /\ sp = ZeroStartupPacket
    /\ con = ZeroCon
    /\ startup_packet = ZeroPacket
    /\ heap = [o \in Objs |-> [state |-> "none", frees |-> 0]]
    /\ fd = "none"
    /\ connectVia = "none"
    /\ wire = <<>>
    /\ errstate = NoError
    /\ elog = <<>>
    /\ CurrentMemoryContext = "ProcessLoopContext"
    /\ oldContext = "ProcessLoopContext"
    /\ slot = "unset"
    /\ innerResult = "none"
    /\ steps = <<>>
    /\ nonblock = FALSE
    /\ ver_pc = "off"
    /\ pgversion = ZeroPgversion
    /\ relcache = NULL
    /\ server_version = <<>>
    /\ ver_local = NoVerLocal
    /\ ver_hist = NoVerHist

SelNext == slbn_call

(***************************************************************************)
(* Pgversion, lines 470-611.                                               *)
(***************************************************************************)
\* line 473
VERSION_BUF_SIZE == 10

\* sizeof(pgversion.version_string)
VERSION_STRING_SIZE == 24

\* the number of Pgversion calls a process makes in the model
MaxCalls == 4

\* "PostgreSQL 12.3 on x86_64"
VER_12_3 ==
    <<80, 111, 115, 116, 103, 114, 101, 83, 81, 76, 32, 49, 50, 46, 51, 32,
      111, 110, 32, 120, 56, 54, 95, 54, 52>>
\* "PostgreSQL 9.6.24 on x86_64"
VER_9_6_24 ==
    <<80, 111, 115, 116, 103, 114, 101, 83, 81, 76, 32, 57, 46, 54, 46, 50,
      52, 32, 111, 110, 32, 120, 56, 54, 95, 54, 52>>
\* "PostgreSQL 12beta1 on x86_64"
VER_12beta1 ==
    <<80, 111, 115, 116, 103, 114, 101, 83, 81, 76, 32, 49, 50, 98, 101, 116,
      97, 49, 32, 111, 110, 32, 120, 56, 54, 95, 54, 52>>
\* "PostgreSQL 5.0 on x86_64"
VER_5_0 ==
    <<80, 111, 115, 116, 103, 114, 101, 83, 81, 76, 32, 53, 46, 48, 32, 111,
      110, 32, 120, 56, 54, 95, 54, 52>>
\* "PostgreSQL 101.1 on x86_64"
VER_101_1 ==
    <<80, 111, 115, 116, 103, 114, 101, 83, 81, 76, 32, 49, 48, 49, 46, 49,
      32, 111, 110, 32, 120, 56, 54, 95, 54, 52>>
\* "PostgreSQL 12.200 on x86_64"
VER_12_200 ==
    <<80, 111, 115, 116, 103, 114, 101, 83, 81, 76, 32, 49, 50, 46, 50, 48,
      48, 32, 111, 110, 32, 120, 56, 54, 95, 54, 52>>
\* "PostgreSQL 12.-1 on x86_64"
VER_12_neg1 ==
    <<80, 111, 115, 116, 103, 114, 101, 83, 81, 76, 32, 49, 50, 46, 45, 49,
      32, 111, 110, 32, 120, 56, 54, 95, 54, 52>>
\* "PostgreSQL 9.6.200 on x86_64"
VER_9_6_200 ==
    <<80, 111, 115, 116, 103, 114, 101, 83, 81, 76, 32, 57, 46, 54, 46, 50,
      48, 48, 32, 111, 110, 32, 120, 56, 54, 95, 54, 52>>
\* "PostgreSQL 10.0 on x86_64"
VER_10_0 ==
    <<80, 111, 115, 116, 103, 114, 101, 83, 81, 76, 32, 49, 48, 46, 48, 32,
      111, 110, 32, 120, 56, 54, 95, 54, 52>>
\* "PostgreSQL 100.1 on x86_64"
VER_100_1 ==
    <<80, 111, 115, 116, 103, 114, 101, 83, 81, 76, 32, 49, 48, 48, 46, 49,
      32, 111, 110, 32, 120, 56, 54, 95, 54, 52>>
\* "PostgreSQL 6.5.3 on x86_64"
VER_6_5_3 ==
    <<80, 111, 115, 116, 103, 114, 101, 83, 81, 76, 32, 54, 46, 53, 46, 51,
      32, 111, 110, 32, 120, 56, 54, 95, 54, 52>>
\* "PostgreSQL 13.11 on x86_64"
VER_13_11 ==
    <<80, 111, 115, 116, 103, 114, 101, 83, 81, 76, 32, 49, 51, 46, 49, 49,
      32, 111, 110, 32, 120, 56, 54, 95, 54, 52>>
\* "PostgreSQL 9.4.26 on x86_64"
VER_9_4_26 ==
    <<80, 111, 115, 116, 103, 114, 101, 83, 81, 76, 32, 57, 46, 52, 46, 50,
      54, 32, 111, 110, 32, 120, 56, 54, 95, 54, 52>>
\* "PostgreSQL 8.4.22 on x86_64"
VER_8_4_22 ==
    <<80, 111, 115, 116, 103, 114, 101, 83, 81, 76, 32, 56, 46, 52, 46, 50,
      50, 32, 111, 110, 32, 120, 56, 54, 95, 54, 52>>
\* "PostgreSQL 11.100 on x86_64"
VER_11_100 ==
    <<80, 111, 115, 116, 103, 114, 101, 83, 81, 76, 32, 49, 49, 46, 49, 48,
      48, 32, 111, 110, 32, 120, 56, 54, 95, 54, 52>>
\* "PostgreSQL": a reply without a space
VER_nospace ==
    <<80, 111, 115, 116, 103, 114, 101, 83, 81, 76>>

\* the version strings a backend answers SELECT version() with
VersionStrings ==
    {VER_12_3, VER_9_6_24, VER_12beta1, VER_5_0,
     VER_101_1, VER_12_200, VER_12_neg1, VER_9_6_200,
     VER_10_0, VER_100_1, VER_6_5_3, VER_13_11,
     VER_9_4_26, VER_8_4_22, VER_11_100, VER_nospace}

\* *p for p the k-th character of C string s; the terminating NUL follows
\* the last character
CharAt(s, k) == IF k <= Len(s) THEN s[k] ELSE 0

\* strchr(s, c): the position of the first c in s, 0 for NULL
strchr(s, c) ==
    IF \E k \in 1..Len(s) : s[k] = c
    THEN CHOOSE k \in 1..Len(s) : s[k] = c /\ \A j \in 1..(k - 1) : s[j] # c
    ELSE 0

\* lines 541-545, 570-574, 586-590: copy from position p into buf until one
\* of the characters of stops, at most VERSION_BUF_SIZE - 1 characters; the
\* result is buf and p as the loop leaves them
RECURSIVE CopyUntil(_, _, _, _)
CopyUntil(s, p, buf, stops) ==
    IF Len(buf) < VERSION_BUF_SIZE - 1 /\ CharAt(s, p) \notin stops
    THEN CopyUntil(s, p + 1, Append(buf, CharAt(s, p)), stops)
    ELSE [buf |-> buf, p |-> p]

\* lines 531-579: what the major version part does with the string result.
\* wrote says whether line 578 stored major into pgversion.major.
ParseMajor(result) ==
    LET sp0 == strchr(result, 32)
        c1 == CopyUntil(result, sp0 + 1, <<>>, {46})
        v1 == atoi(c1.buf)
        c2 == CopyUntil(result, c1.p + 1, <<>>, {46, 32})
    IN  IF sp0 = 0
        THEN [fatal |-> "unable to find the first space in the version string",
              major |-> 0, p |-> 0, wrote |-> FALSE]
        ELSE IF v1 < 6 \/ v1 > 100
        THEN [fatal |-> "wrong major version", major |-> v1, p |-> c1.p, wrote |-> FALSE]
        ELSE IF v1 >= 10
        THEN [fatal |-> "", major |-> v1 * 10, p |-> c1.p, wrote |-> FALSE]
        ELSE [fatal |-> "", major |-> v1 * 10 + atoi(c2.buf), p |-> c2.p, wrote |-> TRUE]

\* lines 584-600: the minor version read after position p
ParseMinor(result, p) ==
    LET c3 == CopyUntil(result, p + 1, <<>>, {46, 32})
        minor == atoi(c3.buf)
    IN  [fatal |-> IF minor < 0 \/ minor > 100 THEN "wrong minor version" ELSE "",
         minor |-> minor]

\* line 608: strncpy into the zeroed version_string, as the C string it holds
strncpy(src, n) == SubSeq(src, 1, Min(Len(src), n))

\* pool_create_relcache: a cache, or NULL
CreateOutcomes == {"ok", "null"}
\* pool_search_relcache: the version string, or 0
SearchOutcomes == {"ok", "null"}

\* lines 483-521: the cache test, the relcache and the lookup
Pgversion_entry ==
    /\ ver_pc = "idle"
    /\ ver_hist.calls < MaxCalls
    /\ UNCHANGED << openVars, selVars, server_version, pgversion >>
    /\ IF pgversion.major # 0
       THEN /\ ver_hist' = [ver_hist EXCEPT !.calls = @ + 1, !.ret = "pgversion"]
            /\ UNCHANGED << ver_pc, relcache, ver_local >>
       ELSE \E created \in CreateOutcomes, found \in SearchOutcomes :
            LET creates == IF relcache = NULL THEN 1 ELSE 0
            IN  IF relcache = NULL /\ created = "null"
                THEN /\ ver_pc' = "fatal"
                     /\ ver_hist' = [ver_hist EXCEPT
                            !.creates = @ + creates,
                            !.fatal = "unable to create relcache"]
                     /\ UNCHANGED << relcache, ver_local >>
                ELSE IF found = "null"
                THEN /\ relcache' = "relcache"
                     /\ ver_pc' = "fatal"
                     /\ ver_hist' = [ver_hist EXCEPT
                            !.creates = @ + creates, !.searches = @ + 1,
                            !.fatal = "unable to search relcache"]
                     /\ UNCHANGED ver_local
                ELSE /\ relcache' = "relcache"
                     /\ ver_local' = [ver_local EXCEPT !.result = server_version]
                     /\ ver_hist' = [ver_hist EXCEPT
                            !.creates = @ + creates, !.searches = @ + 1]
                     /\ ver_pc' = "major"

\* lines 531-579
Pgversion_major ==
    /\ ver_pc = "major"
    /\ UNCHANGED << openVars, selVars, server_version, relcache >>
    /\ LET m == ParseMajor(ver_local.result)
       IN  /\ ver_local' = [ver_local EXCEPT !.p = m.p, !.major = m.major]
           /\ pgversion' = IF m.wrote THEN [pgversion EXCEPT !.major = m.major]
                                       ELSE pgversion
           /\ IF m.fatal # ""
              THEN /\ ver_pc' = "fatal"
                   /\ ver_hist' = [ver_hist EXCEPT !.fatal = m.fatal]
              ELSE /\ ver_pc' = "minor"
                   /\ UNCHANGED ver_hist

\* lines 584-611
Pgversion_minor ==
    /\ ver_pc = "minor"
    /\ UNCHANGED << openVars, selVars, server_version, relcache, ver_local >>
    /\ LET m == ParseMinor(ver_local.result, ver_local.p)
       IN  IF m.fatal # ""
           THEN /\ ver_pc' = "fatal"
                /\ ver_hist' = [ver_hist EXCEPT !.fatal = m.fatal]
                /\ UNCHANGED pgversion
           ELSE /\ pgversion' =
                      [major |-> ver_local.major, minor |-> m.minor,
                       version_string |->
                          strncpy(ver_local.result, VERSION_STRING_SIZE - 1)]
                /\ ver_hist' = [ver_hist EXCEPT
                       !.calls = @ + 1, !.ret = "pgversion", !.first = pgversion']
                /\ ver_pc' = "idle"

\* no opener call and no selection is in progress while Pgversion runs; the
\* cache is zero as static storage is
VerInit ==
    /\ ver_pc = "idle"
    /\ pgversion = ZeroPgversion
    /\ relcache = NULL
    /\ server_version \in VersionStrings
    /\ ver_local = NoVerLocal
    /\ ver_hist = NoVerHist
    /\ pc = "off"
    /\ args = IdleArgs
    /\ cp = ZeroSlot
    /\ sp = ZeroStartupPacket
    /\ con = ZeroCon
    /\ startup_packet = ZeroPacket
    /\ heap = [o \in Objs |-> [state |-> "none", frees |-> 0]]
    /\ fd = "none"
    /\ connectVia = "none"
    /\ wire = <<>>
    /\ errstate = NoError
    /\ elog = <<>>
    /\ CurrentMemoryContext = "ProcessLoopContext"
    /\ oldContext = "ProcessLoopContext"
    /\ slot = "unset"
    /\ innerResult = "none"
    /\ steps = <<>>
    /\ nonblock = FALSE
    /\ sel_pc = "off"
    /\ backend_info = [i \in 0..(NUM_BACKENDS - 1) |->
                          [raw |-> TRUE, valid |-> TRUE, backend_weight |-> 1]]
    /\ PRIMARY_NODE_ID = 0
    /\ SL_MODE = TRUE
    /\ database = "other"
    /\ application_name = NULL
    /\ sel = NoSel

VerNext ==
    \/ Pgversion_entry
    \/ Pgversion_major
    \/ Pgversion_minor

(***************************************************************************)
(* Specifications.                                                         *)
(***************************************************************************)
\* the opener: one call of make_persistent_db_connection(_noerror)
SpecOpen == OpenInit /\ [][OpenNext]_vars

\* the selector: one call of select_load_balancing_node
SpecSel == SelInit /\ [][SelNext]_vars

\* the version probe: the Pgversion calls of one process
SpecVer == VerInit /\ [][VerNext]_vars

(***************************************************************************)
(* Properties of the opener (checked under SpecOpen).                      *)
(***************************************************************************)
\* the call has ended with its error on the way to, or handled for, the caller
ErrorSurfaced ==
    /\ innerResult = "raised"
    /\ pc \in {"propagated", "noerror_catch", "returned"}

\* allocation o is either untouched by the call or released exactly once
ReleasedOnce(o) ==
    \/ heap[o].state = "none" /\ heap[o].frees = 0
    \/ heap[o].state = "freed" /\ heap[o].frees = 1

\* C1: when a failing make_persistent_db_connection surfaces its error, the
\* transport is not open and every allocation of the call (Slot, startup
\* buffer, StartupRecord, duplicated user and database strings, connection)
\* has been released exactly once, whichever step failed.
C1_FailureReleasesEverything ==
    ErrorSurfaced => fd # "open" /\ \A o \in Objs : ReleasedOnce(o)

\* the error the call raised, pending or already emitted by the wrapper
RaisedError == IF errstate # NoError THEN errstate ELSE elog[Len(elog)]

\* the same holds of every failure other than the negotiation's: a failed
\* connect, an overflow, a failed send or flush, a failed authentication
ReleasedUnlessNegotiationFailed ==
    ErrorSurfaced /\ RaisedError.msg # "ssl negotiation failed"
        => fd # "open" /\ \A o \in Objs : ReleasedOnce(o)

BigEndian32(n) ==
    [k \in 1..4 |-> (n \div (256 ^ (4 - k))) % 256]

\* "user\0<user>\0database\0<dbname>\0" and the final NUL
ExpectedPayload(user, dbname) ==
    STR_user \o <<0>> \o user \o <<0>> \o STR_database \o <<0>> \o dbname \o <<0>> \o <<0>>

\* length prefix (counting itself), protocol 3.0, payload
ExpectedFrame(user, dbname) ==
    BigEndian32(4 + 4 + Len(ExpectedPayload(user, dbname)))
        \o <<0, 3, 0, 0>> \o ExpectedPayload(user, dbname)

Succeeded == pc = "returned" /\ slot = "cp"

BobApp == args.user = STR_bob /\ args.dbname = STR_app

\* the first n bytes of the startup buffer
DataPrefix(n) == [k \in 1..n |-> startup_packet.data[k - 1]]

\* C3 as claimed: with user "bob" and dbname "app" the payload is
\* "user\0bob\0database\0app\0\0" and cp->sp->len is 4 + 22 = 26.
C3_LenIs26 ==
    Succeeded /\ BobApp =>
        /\ DataPrefix(sp.len - 4) = ExpectedPayload(STR_bob, STR_app)
        /\ sp.len = 4 + 22

\* C3 amended: with user "bob" and dbname "app" the payload is the 23 bytes
\* "user\0bob\0database\0app\0\0" and cp->sp->len is 4 + 23 = 27.
C3_LenIs27 ==
    Succeeded /\ BobApp =>
        /\ DataPrefix(sp.len - 4) = ExpectedPayload(STR_bob, STR_app)
        /\ Len(ExpectedPayload(STR_bob, STR_app)) = 23
        /\ sp.len = 4 + 23

C3_Witness == Succeeded /\ BobApp /\ sp.len = 27

\* the block "user\0<user>\0database\0<dbname>\0\0" does not fit the buffer
Overflows(user, dbname) == Len(ExpectedPayload(user, dbname)) > MAX_USER_AND_DATABASE

StepsTaken == {steps[k] : k \in 1..Len(steps)}

\* C4: when the serialisation step runs on a user and dbname whose block
\* overflows the 1024-byte buffer, the call fails with the too-long error,
\* the transport is closed, no Slot is returned and nothing has been sent:
\* the call never reaches the send or the authentication step.
C4_OverflowFails ==
    Overflows(args.user, args.dbname) =>
        /\ pc \notin {"send", "auth", "pg_catch"}
        /\ "build" \in StepsTaken =>
            /\ innerResult = "raised"
            /\ RaisedError.msg = "failed to make persistent db connection"
            /\ RaisedError.detail \in {"user name is too long", "database name is too long"}
            /\ fd = "closed"
            /\ slot # "cp"
            /\ wire = <<>>

C4_Witness ==
    /\ "build" \in StepsTaken
    /\ Len(args.user) = 2000
    /\ pc = "propagated"
    /\ fd = "closed"

\* C5: make_persistent_db_connection_noerror never lets an error reach its
\* caller; it returns the Slot exactly when make_persistent_db_connection
\* returned one, and otherwise returns NULL with the error emitted once, the
\* allocation context the one saved at entry and no error pending.
C5_NoerrorNeverRaises ==
    args.noerror =>
        /\ pc # "propagated"
        /\ pc = "returned" =>
            /\ slot = "cp" <=> innerResult = "ok"
            /\ innerResult = "raised" =>
                /\ slot = NULL
                /\ Len(elog) = 1 /\ elog[1] # NoError
                /\ errstate = NoError
                /\ CurrentMemoryContext = oldContext

C5_Witness ==
    /\ args.noerror
    /\ pc = "returned" /\ slot = NULL
    /\ "auth" \in StepsTaken
    /\ elog = << [msg |-> "authentication failed", detail |-> ""] >>

(***************************************************************************)
(* Properties of the selector (checked under SpecSel).                     *)
(***************************************************************************)
Selected == sel_pc = "done"

\* the indexes the two lists give for this session, read off the inputs
AppMatch ==
    IF SL_MODE /\ application_name # NULL /\ application_name # ""
    THEN regex_array_match(redirect_app_names, application_name) ELSE -1

DbMatch == IF SL_MODE THEN regex_array_match(redirect_dbnames, database) ELSE -1

\* C6: when an application-name rule matches, the database rule has no
\* influence: the call returns at the same place, with the same suggestion
\* and the same node, as it does for a database that matches no rule, the
\* application name and the draws being the same.
C6_AppRuleAloneDecides ==
    Selected /\ AppMatch >= 0 =>
        LET alone == select_load_balancing_node("other", application_name, sel.locals.r,
                                                IF sel.r2 >= 0 THEN sel.r2 ELSE 0)
        IN  /\ sel.locals.suggested_node_id = alone.locals.suggested_node_id
            /\ sel.at = alone.at
            /\ sel.ret = alone.ret

\* a backend the weighted fallback can pick when node f is forbidden
Candidate(i, f) ==
    i \in Backends /\ VALID_BACKEND_RAW(i) /\ BACKEND_WEIGHT(i) > 0 /\ i # f

Forbidden == sel.locals.no_load_balance_node_id

\* C7: when a rule suggested a concrete node and the direct-hit test failed
\* (forbidden = suggested >= 0), the node returned is another live backend
\* of positive weight if there is one, and MASTER_NODE_ID if there is none.
C7_ForbiddenNotReturned ==
    Selected /\ sel.locals.suggested_node_id >= 0
             /\ Forbidden = sel.locals.suggested_node_id =>
        IF \E i \in Backends : Candidate(i, Forbidden)
        THEN sel.ret # Forbidden /\ Candidate(sel.ret, Forbidden)
        ELSE sel.ret = MASTER_NODE_ID

C7_Witness ==
    /\ Selected /\ Forbidden = 2 /\ sel.locals.suggested_node_id = 2
    /\ sel.at = "fallback"
    /\ BACKEND_WEIGHT(2) > 0
    /\ sel.ret = 1

StandbyFallback ==
    Selected /\ sel.locals.suggested_node_id = -1 /\ sel.at = "fallback"

\* C8 as claimed: a standby intent that reaches the weighted fallback never
\* returns PRIMARY_NODE_ID; it returns a live backend that is not the primary.
C8_NeverPrimary ==
    StandbyFallback =>
        /\ sel.ret # PRIMARY_NODE_ID
        /\ sel.ret \in Backends /\ VALID_BACKEND_RAW(sel.ret)

\* C8 amended: a standby intent that reaches the weighted fallback returns a
\* live backend of positive weight other than the primary whenever there is
\* one; when there is none it returns MASTER_NODE_ID, which may be the primary.
C8_NotPrimaryIfStandbyExists ==
    StandbyFallback =>
        IF \E i \in Backends : Candidate(i, PRIMARY_NODE_ID)
        THEN sel.ret # PRIMARY_NODE_ID /\ Candidate(sel.ret, PRIMARY_NODE_ID)
        ELSE sel.ret = MASTER_NODE_ID

C8_Witness ==
    /\ StandbyFallback
    /\ database = "rep" /\ AppMatch = -1 /\ sel.locals.r = 1
    /\ PRIMARY_NODE_ID = 0 /\ BACKEND_WEIGHT(0) > 0
    /\ sel.ret = 2

\* the rule in force for this session: the application-name rule when one
\* matches, else the database rule, else none
NoRule == [right_token |-> <<>>, weight_token |-> -1]
ActiveRule ==
    IF AppMatch >= 0 THEN app_name_redirect_tokens[AppMatch + 1]
    ELSE IF DbMatch >= 0 THEN db_redirect_tokens[DbMatch + 1]
    ELSE NoRule

ActiveTarget == choose_db_node_id(ActiveRule.right_token)

\* C9: in streaming-replication mode, when the rule in force resolves to a
\* concrete valid backend t and the first draw is at most the rule's weight,
\* the call returns t at the direct-hit branch, without the fallback draw.
C9_DirectHitReturnsTarget ==
    Selected /\ SL_MODE /\ ActiveRule # NoRule
             /\ ActiveTarget >= 0 /\ VALID_BACKEND(ActiveTarget)
             /\ sel.locals.r <= ActiveRule.weight_token =>
        sel.ret = ActiveTarget /\ sel.at = "direct"

C9_Witness ==
    /\ Selected /\ database = "app" /\ AppMatch = -1
    /\ ActiveRule.weight_token = RAND_MAX /\ sel.locals.r = RAND_MAX
    /\ PRIMARY_NODE_ID = 0
    /\ sel.ret = 2 /\ sel.at = "direct"

\* C10: when the database rule in force targets valid backend 2 with weight
\* 0.0, whatever the first draw the call returns a backend other than 2
\* picked from the remaining live backends of positive weight, or
\* MASTER_NODE_ID when there is none.
C10_ZeroWeightNeverTarget ==
    Selected /\ SL_MODE /\ database = "app0" /\ AppMatch = -1 /\ VALID_BACKEND(2) =>
        IF \E i \in Backends : Candidate(i, 2)
        THEN sel.ret # 2 /\ Candidate(sel.ret, 2)
        ELSE sel.ret = MASTER_NODE_ID

\* the same for every first draw other than 0
ZeroWeightNeverTargetForPositiveDraw ==
    Selected /\ SL_MODE /\ database = "app0" /\ AppMatch = -1 /\ VALID_BACKEND(2)
             /\ sel.locals.r > 0 =>
        IF \E i \in Backends : Candidate(i, 2)
        THEN sel.ret # 2 /\ Candidate(sel.ret, 2)
        ELSE sel.ret = MASTER_NODE_ID

\* C11: when the suggestion is "any standby" (suggested_node_id = -1) and the
\* first draw is greater than the weight of the rule in force, the call
\* returns PRIMARY_NODE_ID at the standby branch; the weighted fallback and
\* its second draw are not performed.
C11_StandbyOverWeightReturnsPrimary ==
    Selected /\ sel.locals.suggested_node_id = -1
             /\ sel.locals.r > ActiveRule.weight_token =>
        /\ sel.ret = PRIMARY_NODE_ID
        /\ sel.at = "primary"
        /\ sel.r2 = -1 /\ sel.total_weight = -1

C11_Witness ==
    /\ Selected /\ application_name = "rpt" /\ database = "other"
    /\ sel.locals.suggested_node_id = -1
    /\ sel.locals.r = RAND_MAX
    /\ PRIMARY_NODE_ID = 1
    /\ sel.ret = 1 /\ sel.at = "primary"

\* the backends the weighted fallback of this call chooses among
FallbackCandidates ==
    { i \in Backends :
        /\ Candidate(i, Forbidden)
        /\ ~(sel.locals.suggested_node_id = -1 /\ i = PRIMARY_NODE_ID) }

\* the sum of the weights of the candidates below backend i
RECURSIVE WeightBelow(_)
WeightBelow(i) ==
    IF i <= 0 THEN 0
    ELSE WeightBelow(i - 1)
            + (IF (i - 1) \in FallbackCandidates THEN BACKEND_WEIGHT(i - 1) ELSE 0)

\* C17: the weighted fallback, for a second draw r' = (r2 / RAND_MAX) *
\* total_weight below total_weight, returns the one candidate i with
\* WeightBelow(i) <= r' < WeightBelow(i) + weight(i); total_weight is the sum
\* of the candidates' weights; a backend of weight zero is never chosen by
\* the iteration, and MASTER_NODE_ID is the result of an iteration that
\* chose nothing only when there is no candidate.
C17_FallbackPicksByRunningSum ==
    Selected /\ sel.at = "fallback" =>
        /\ sel.total_weight = WeightBelow(NUM_BACKENDS)
        /\ IF FallbackCandidates = {}
           THEN sel.ret = MASTER_NODE_ID
           ELSE /\ sel.ret \in FallbackCandidates
                /\ BACKEND_WEIGHT(sel.ret) > 0
                /\ sel.r2 < RAND_MAX =>
                    /\ WeightBelow(sel.ret) * RAND_MAX <= sel.r2 * sel.total_weight
                    /\ sel.r2 * sel.total_weight
                          < (WeightBelow(sel.ret) + BACKEND_WEIGHT(sel.ret)) * RAND_MAX
                    /\ \A j \in FallbackCandidates \ {sel.ret} :
                          ~ /\ WeightBelow(j) * RAND_MAX <= sel.r2 * sel.total_weight
                            /\ sel.r2 * sel.total_weight
                                  < (WeightBelow(j) + BACKEND_WEIGHT(j)) * RAND_MAX

C17_Witness ==
    /\ Selected /\ sel.at = "fallback" /\ sel.locals.suggested_node_id = -2
    /\ FallbackCandidates = {0, 2}
    /\ VALID_BACKEND_RAW(1) /\ BACKEND_WEIGHT(1) = 0
    /\ sel.r2 = RAND_MAX \div 2
    /\ sel.ret = 2

\* the tokens of the configured rules
Tokens == {TOK_primary, TOK_standby, TOK_1, TOK_2, TOK_99}

\* the integer a numeric token denotes
TokenValue(tok) ==
    IF tok = TOK_1 THEN 1 ELSE IF tok = TOK_2 THEN 2 ELSE 99

\* token resolution as section 4.2.1 of the specification states it
resolve_token(tok) ==
    IF tok = TOK_primary
    THEN IF PRIMARY_NODE_ID >= 0 THEN PRIMARY_NODE_ID ELSE MASTER_NODE_ID
    ELSE IF tok = TOK_standby THEN -1
    ELSE IF TokenValue(tok) >= 0 /\ TokenValue(tok) < NUM_BACKENDS
         THEN TokenValue(tok) ELSE MASTER_NODE_ID

\* C18: in every topology choose_db_node_id returns PRIMARY_NODE_ID for
\* "primary" when there is a primary and MASTER_NODE_ID when there is none,
\* -1 for "standby", and for a numeric token its value when that is a
\* backend id and MASTER_NODE_ID otherwise.
C18_ChooseDbNodeId ==
    Selected => \A tok \in Tokens : choose_db_node_id(tok) = resolve_token(tok)

\* the same in the topologies where there is a primary or backend 0 is alive
ChooseDbNodeIdWithPrimaryOrNodeZero ==
    Selected /\ (PRIMARY_NODE_ID >= 0 \/ MASTER_NODE_ID = 0) =>
        \A tok \in Tokens : choose_db_node_id(tok) = resolve_token(tok)

\* C19: whenever MASTER_NODE_ID is a live backend, the call returns the id
\* of a live backend: 0 <= id < NUM_BACKENDS and VALID_BACKEND_RAW(id),
\* whatever the rules, the topology and the two draws.
C19_ReturnsLiveBackend ==
    Selected /\ MASTER_NODE_ID \in Backends =>
        sel.ret \in Backends /\ VALID_BACKEND_RAW(sel.ret)

\* the same in the topologies that have a primary
ReturnsLiveBackendWithPrimary ==
    Selected /\ MASTER_NODE_ID \in Backends /\ PRIMARY_NODE_ID >= 0 =>
        sel.ret \in Backends /\ VALID_BACKEND_RAW(sel.ret)

\* C20: the serialisation step stores into data[] at indexes below 1024 only,
\* the final NUL at data[len] included, and it passes the three length
\* checks exactly when "user\0<user>\0database\0<dbname>\0\0" fits the
\* buffer: 17 + len(user) + len(dbname) <= 1024.
C20_ChecksExactAndInBounds ==
    "build" \in StepsTaken =>
        LET b == BuildStartupPacket(args.user, args.dbname)
            fits == 17 + Len(args.user) + Len(args.dbname) <= MAX_USER_AND_DATABASE
        IN  /\ b.top < MAX_USER_AND_DATABASE
            /\ fits <=> cp.sp = "sp"
            /\ fits <=> ~Overflows(args.user, args.dbname)
            /\ cp.sp = "sp" =>
                  /\ sp.len - 4 = 17 + Len(args.user) + Len(args.dbname)
                  /\ b.top = sp.len - 4 - 1
                  /\ startup_packet.data[b.top] = 0

C20_Witness ==
    /\ "build" \in StepsTaken
    /\ Len(args.user) = 1004 /\ args.dbname = STR_app
    /\ cp.sp = "sp" /\ sp.len = 4 + MAX_USER_AND_DATABASE

(***************************************************************************)
(* Properties of discard_persistent_db_connection and of the Slot's life   *)
(* (checked under SpecOpen).                                               *)
(***************************************************************************)
Discarding == pc \in {"d_nonblock", "d_flush", "d_unblock", "d_close", "d_free"}

Discarded == pc = "discarded"

IsPrefix(a, b) == Len(a) <= Len(b) /\ SubSeq(b, 1, Len(a)) = a

\* C14: discard_persistent_db_connection lets no error reach its caller
\* whatever the non-blocking flush did (all, a part or nothing written); on
\* a Slot it ends with the descriptor closed and the Slot, its connection,
\* its StartupRecord, the startup buffer and the duplicated user and
\* database strings released, each once; on NULL it writes nothing, closes
\* nothing and releases nothing.
C14_DiscardBestEffort ==
    /\ Discarding \/ Discarded => errstate = NoError
    /\ Discarded /\ slot = "cp" =>
        /\ fd = "closed"
        /\ \A o \in Objs : heap[o].state = "freed" /\ heap[o].frees = 1
        /\ \E t \in {TerminateBytes} \cup {SubSeq(TerminateBytes, 1, k) : k \in 0..4} :
              wire = ExpectedFrame(args.user, args.dbname) \o t
    /\ Discarded /\ slot = NULL =>
        /\ steps[Len(steps)] = "discard_null"
        /\ con.wbuf = <<>>
        /\ StepsTaken \cap {"write_terminate", "flush_it", "pool_close", "free"} = {}
        /\ \A o \in Objs : heap[o].frees <= 1

C14_Witness ==
    /\ Discarded /\ slot = "cp" /\ BobApp
    /\ wire = ExpectedFrame(STR_bob, STR_app) \o <<88, 0>>
    /\ fd = "closed"
    /\ heap["user"].state = "freed"

SlotLive == heap["cp"].state = "live"

\* C15 as claimed: in every state in which the Slot is allocated and not yet
\* released, its transport is open if and only if its close_time is 0.
C15_OpenIffCloseTimeZero ==
    SlotLive => (fd = "open" <=> cp.closetime = 0)

\* C15 amended: close_time is 0 in every state of an allocated Slot; the
\* transport is open exactly while the Slot holds a connection that has not
\* been given to pool_close, so that a Slot exists with close_time 0 and no
\* open transport before the connect step and between pool_close and the
\* release; a Slot returned to the caller has its transport open and
\* close_time 0.
C15_OpenWhileConnectionHeld ==
    /\ SlotLive =>
        /\ cp.closetime = 0
        /\ fd = "open" <=> (cp.con # NULL /\ heap[cp.con].state = "live")
    /\ Succeeded => SlotLive /\ fd = "open" /\ cp.closetime = 0

C15_Witness ==
    /\ pc = "d_free" /\ SlotLive
    /\ cp.closetime = 0
    /\ fd = "closed"

\* the place of step x among the steps taken
Pos(x) == CHOOSE k \in 1..Len(steps) : steps[k] = x

\* step b is taken only after step a
Precedes(a, b) == b \in StepsTaken => a \in StepsTaken /\ Pos(a) < Pos(b)

\* C16: the steps on one Slot come in order: connect, TLS negotiation, the
\* write and flush of the startup frame, authentication; the frame is on the
\* wire in full when the authentication step starts.  In the discard the
\* terminate message 'X', 0, 0, 0, 4 is written and the flush attempted
\* before the descriptor is closed, non-blocking mode is on for the flush
\* alone, and blocking mode is back when pool_close is called.
C16_WireEventsOrdered ==
    /\ Precedes("connect", "ssl")
    /\ Precedes("ssl", "send")
    /\ Precedes("send", "auth")
    /\ pc = "auth" \/ "auth" \in StepsTaken =>
          IsPrefix(ExpectedFrame(args.user, args.dbname), wire)
    /\ pc \in {"connect", "ssl", "build", "send"} => wire = <<>>
    /\ Precedes("auth", "write_terminate")
    /\ Precedes("write_terminate", "set_nonblock")
    /\ Precedes("set_nonblock", "flush_it")
    /\ Precedes("flush_it", "unset_nonblock")
    /\ Precedes("unset_nonblock", "pool_close")
    /\ Precedes("pool_close", "free")
    /\ pc = "d_nonblock" => con.wbuf = <<88, 0, 0, 0, 4>>
    /\ nonblock <=> pc \in {"d_flush", "d_unblock"}
    /\ pc = "d_close" => ~nonblock /\ fd = "open"
    /\ "write_terminate" \in StepsTaken /\ "pool_close" \notin StepsTaken => fd = "open"
    /\ Len(wire) > Len(ExpectedFrame(args.user, args.dbname)) =>
          /\ "flush_it" \in StepsTaken
          /\ IsPrefix(SubSeq(wire, Len(ExpectedFrame(args.user, args.dbname)) + 1, Len(wire)),
                      <<88, 0, 0, 0, 4>>)

C16_Witness ==
    /\ Discarded /\ slot = "cp" /\ BobApp
    /\ steps = << "entry", "connect", "ssl", "build", "send", "auth",
                  "write_terminate", "set_nonblock", "flush_it", "unset_nonblock",
                  "pool_close", "free" >>
    /\ wire = ExpectedFrame(STR_bob, STR_app) \o <<88, 0, 0, 0, 4>>

(***************************************************************************)
(* Properties of Pgversion (checked under SpecVer).                        *)
(***************************************************************************)
\* a step leaves the version cache alone and talks to no relcache
CacheUntouched ==
    /\ pgversion' = pgversion
    /\ ver_hist'.creates = ver_hist.creates
    /\ ver_hist'.searches = ver_hist.searches

\* C12: once pgversion.major is non-zero no step of any Pgversion call
\* changes major, minor or version_string, creates a relcache or looks the
\* version up, and every call that returns gives the static record with the
\* values of the first successful call.
C12_CacheImmutableOnceMajorSet ==
    /\ [][pgversion.major # 0 => CacheUntouched]_vars
    /\ [](ver_hist.calls >= 1 =>
            ver_hist.ret = "pgversion" /\ pgversion = ver_hist.first)

\* the same from the first return of Pgversion on, rather than from the
\* moment major becomes non-zero
CacheImmutableOnceReturned ==
    /\ [][ver_hist.calls >= 1 => CacheUntouched]_vars
    /\ [](ver_hist.calls >= 1 =>
            /\ ver_hist.ret = "pgversion" /\ pgversion = ver_hist.first
            /\ pgversion.major # 0
            /\ ver_hist.creates = 1 /\ ver_hist.searches = 1)

\* what the parse rules give for each version string: a fatal error, or the
\* major number and the minor numbers allowed ("12beta1" fixes the major only)
ExpectedVersion(v) ==
    CASE v = VER_12_3 -> [fatal |-> FALSE, major |-> 120, minors |-> {3}]
      [] v = VER_9_6_24 -> [fatal |-> FALSE, major |-> 96, minors |-> {24}]
      [] v = VER_12beta1 -> [fatal |-> FALSE, major |-> 120, minors |-> 0..100]
      [] v = VER_10_0 -> [fatal |-> FALSE, major |-> 100, minors |-> {0}]
      [] v = VER_100_1 -> [fatal |-> FALSE, major |-> 1000, minors |-> {1}]
      [] v = VER_6_5_3 -> [fatal |-> FALSE, major |-> 65, minors |-> {3}]
      [] v = VER_13_11 -> [fatal |-> FALSE, major |-> 130, minors |-> {11}]
      [] v = VER_9_4_26 -> [fatal |-> FALSE, major |-> 94, minors |-> {26}]
      [] v = VER_8_4_22 -> [fatal |-> FALSE, major |-> 84, minors |-> {22}]
      [] v = VER_11_100 -> [fatal |-> FALSE, major |-> 110, minors |-> {100}]
      [] OTHER -> [fatal |-> TRUE, major |-> 0, minors |-> {}]

\* C13: a call that returns has major = v1 * 10 for v1 >= 10 and
\* v1 * 10 + v2 for v1 < 10, and minor the segment that follows ((120, 3)
\* for "PostgreSQL 12.3 on ...", (96, 24) for "PostgreSQL 9.6.24 on ...",
\* major 120 for "PostgreSQL 12beta1 on ..."); for v1 < 6, v1 > 100,
\* minor < 0 or minor > 100 the call never returns, and when it has ended
\* in the fatal state the cache is unpopulated (major = 0).
C13_ParseAndReject ==
    LET e == ExpectedVersion(server_version)
    IN  /\ ver_hist.calls >= 1 =>
              /\ ~e.fatal
              /\ pgversion.major = e.major
              /\ pgversion.minor \in e.minors
        /\ ver_pc = "fatal" => ver_hist.calls = 0 /\ pgversion.major = 0

\* the same, but for the strings with v1 < 10 and a minor out of range, for
\* which line 578 has stored the major number before the minor is examined
ParseAndRejectButEarlyMajor ==
    LET e == ExpectedVersion(server_version)
    IN  /\ ver_hist.calls >= 1 =>
              /\ ~e.fatal
              /\ pgversion.major = e.major
              /\ pgversion.minor \in e.minors
        /\ ver_pc = "fatal" =>
              /\ ver_hist.calls = 0
              /\ IF server_version = VER_9_6_200
                    /\ ver_hist.fatal = "wrong minor version"
                 THEN pgversion.major = 96
                 ELSE pgversion.major = 0

\* every string the rules reject has its parse end in the fatal state
RejectedEndsFatal ==
    ExpectedVersion(server_version).fatal /\ ver_local.result # NULL
        => ver_pc \in {"major", "minor", "fatal"}

=============================================================================
